---- MODULE Spec2Model ----
(***************************************************************************)
(* Model of src/App.jsx: the module-scope environment reads, the App       *)
(* component's state, its one-time bootstrap effect (client construction,  *)
(* auth-state listener, attemptSignIn with its catch fallback), the        *)
(* loading gate, the view router and the tab buttons.  The identity        *)
(* provider is the environment: it settles each sign-in call either way,   *)
(* may sign the user out, and invokes the listener once per queued         *)
(* auth-state notification while the listener is subscribed.               *)
(***************************************************************************)
EXTENDS Integers, Sequences, FiniteSets, TLC

VARIABLES
    rawConfig,        \* __firebase_config as the host supplies it
    initialAuthToken, \* line 14
    firebaseConfig,   \* line 13, the parsed configuration
    pc,               \* where the shell is in its life
    db, auth, userId, isAuthReady, loadingMessage,   \* lines 19-23
    activeTab, userStatus,                           \* lines 26-27
    listener,         \* the onAuthStateChanged subscription
    queue,            \* auth-state notifications not yet handed to the listener
    currentUser,      \* the provider's signed-in user
    signIn,           \* position of attemptSignIn
    calls,            \* SDK auth calls made so far, in order
    results,          \* how each settled sign-in call ended
    logged,           \* console.error entries
    rejection,        \* the error attemptSignIn's promise rejected with
    delivered,        \* the users the listener was invoked with
    signOuts,         \* provider sign-outs so far
    clicked           \* the label of the last TabButton clicked

vars == <<rawConfig, initialAuthToken, firebaseConfig, pc, db, auth, userId,
          isAuthReady, loadingMessage, activeTab, userStatus, listener, queue,
          currentUser, signIn, calls, results, logged, rejection, delivered,
          signOuts, clicked>>

-----------------------------------------------------------------------------
\* Bounds of the model

\* how many times the provider may sign the user out on its own
MaxSignOuts == 1

-----------------------------------------------------------------------------
\* Values

\* JavaScript null; every nullable value of the model is a tuple
NULL == <<>>

\* token values the host may supply: absent, the empty string, a token
NoToken == "<null>"
Tokens == {NoToken, "", "tok"}

\* uids the provider issues, as character sequences, shorter and longer
\* than the eight characters the status line keeps
UIDs == { <<"a", "b", "c">>,
          <<"u", "1", "2", "3", "4", "5", "6", "7", "8", "9">> }

\* typeof __firebase_config === 'undefined'
Undefined == <<"undefined">>

\* serialized configurations, as JSON token sequences
RawConfigs ==
    { Undefined,
      <<"{", "}">>,
      <<"{", "apiKey", ":", "k", "}">>,
      <<"{", "apiKey", ":", "k", ",", "projectId", ":", "p", "}">>,
      <<"{", "apiKey", ":", "k", ",", "apiKey", ":", "p", "}">>,
      <<"{", "apiKey", ":", "k">>,
      <<"{", "apiKey", "k", "}">>,
      <<"{", "apiKey", ":", "k", ",", "}">>,
      <<>>,
      <<"null">>,
      <<"[", "]">>,
      <<"str">> }

Punctuation == {"{", "}", "[", "]", ":", ",", "null", "undefined"}
IsString(t) == t \notin Punctuation
IsScalar(t) == IsString(t) \/ t = "null"

Min(a, b) == IF a < b THEN a ELSE b

-----------------------------------------------------------------------------
\* Module scope, lines 12-14

\* the text handed to JSON.parse
SerializedConfig(raw) == IF raw = Undefined THEN <<"{", "}">> ELSE raw

\* members of an object body: key : scalar (, key : scalar)*
WellFormedMembers(body) ==
    /\ Len(body) % 4 = 3
    /\ \A i \in 1..Len(body) :
          CASE i % 4 = 1 -> IsString(body[i])
            [] i % 4 = 2 -> body[i] = ":"
            [] i % 4 = 3 -> IsScalar(body[i])
            [] OTHER     -> body[i] = ","

MemberKeys(body) == { body[i] : i \in { j \in 1..Len(body) : j % 4 = 1 } }

SyntaxError == [ok |-> FALSE, kind |-> "SyntaxError", keys |-> {}]
NotParsed   == [ok |-> FALSE, kind |-> "unset", keys |-> {}]

\* JSON.parse: the parsed value with its own enumerable keys, or SyntaxError
JSONParse(text) ==
    IF text = <<"null">> THEN [ok |-> TRUE, kind |-> "null", keys |-> {}]
    ELSE IF text = <<"[", "]">> THEN [ok |-> TRUE, kind |-> "array", keys |-> {}]
    ELSE IF Len(text) = 1 /\ IsString(text[1])
         THEN [ok |-> TRUE, kind |-> "string", keys |-> {"0", "1", "2"}]
    ELSE IF Len(text) >= 2 /\ text[1] = "{" /\ text[Len(text)] = "}"
         THEN LET body == SubSeq(text, 2, Len(text) - 1) IN
              IF body = <<>> THEN [ok |-> TRUE, kind |-> "object", keys |-> {}]
              ELSE IF WellFormedMembers(body)
                   THEN [ok |-> TRUE, kind |-> "object", keys |-> MemberKeys(body)]
                   ELSE SyntaxError
    ELSE SyntaxError

\* if (initialAuthToken): null and the empty string are falsy
Truthy(token) == token \notin {NoToken, ""}

-----------------------------------------------------------------------------
\* Messages

InitializingMsg == <<"Initializing application...">>
MissingMsg == <<"Firebase configuration missing. Cannot proceed with data storage.">>
FailedMsg(m) == <<"Failed to initialize Firebase: ", m>>
AuthOkMsg == <<"Authentication successful. Ready to load data.">>
AuthEstablishedMsg == <<"Authentication established.">>
NotStartedStatus == <<"Authentication failed or not started.">>
\* line 49: uid.substring(0, 8)
StatusPrefixLen == 8
LoggedInStatus(uid) ==
    <<"Logged in as: ", SubSeq(uid, 1, Min(StatusPrefixLen, Len(uid))), "...">>

\* what construction step of the try block throws, if any
Outcomes == {"ok", "initializeApp", "getFirestore", "getAuth", "onAuthStateChanged"}

\* the error of the n-th sign-in call
Err(call, n) == <<call, n>>

-----------------------------------------------------------------------------
\* The bootstrap effect, lines 30-79

\* line 32 without the Object.keys test
ConfigMissingNullOnly(cfg) == cfg.kind = "null"

\* line 32
ConfigMissing(cfg) == cfg.kind = "null" \/ Cardinality(cfg.keys) = 0

\* lines 61-65: the first sign-in call
FirstCall(token) == IF Truthy(token) THEN "signInWithCustomToken" ELSE "signInAnonymously"

\* lines 46-56 with readiness set only when a user is reported
AuthCallbackReadyOnUser(user) ==
    [ userId         |-> IF user # NULL THEN user ELSE NULL,
      userStatus     |-> IF user # NULL THEN LoggedInStatus(user) ELSE NotStartedStatus,
      isAuthReady    |-> user # NULL,
      loadingMessage |-> IF user # NULL THEN AuthOkMsg ELSE AuthEstablishedMsg ]

\* lines 46-56 without the setUserId(null) of line 51
AuthCallbackKeepsUser(user) ==
    [ userId         |-> IF user # NULL THEN user ELSE userId,
      userStatus     |-> IF user # NULL THEN LoggedInStatus(user) ELSE NotStartedStatus,
      isAuthReady    |-> TRUE,
      loadingMessage |-> IF user # NULL THEN AuthOkMsg ELSE AuthEstablishedMsg ]

\* lines 46-56: the listener's body
AuthCallback(user) ==
    [ userId         |-> IF user # NULL THEN user ELSE NULL,
      userStatus     |-> IF user # NULL THEN LoggedInStatus(user) ELSE NotStartedStatus,
      isAuthReady    |-> TRUE,
      loadingMessage |-> IF user # NULL THEN AuthOkMsg ELSE AuthEstablishedMsg ]

Init ==
    /\ rawConfig \in RawConfigs
    /\ initialAuthToken \in Tokens
    /\ firebaseConfig = NotParsed
    /\ pc = "load"
    /\ db = NULL /\ auth = NULL /\ userId = NULL
    /\ isAuthReady = FALSE
    /\ loadingMessage = InitializingMsg
    /\ activeTab = "Chat"
    /\ userStatus = NULL
    /\ listener = "none"
    /\ queue = <<>>
    /\ currentUser = NULL
    /\ signIn = "idle"
    /\ calls = <<>> /\ results = <<>> /\ logged = <<>>
    /\ rejection = NULL
    /\ delivered = <<>>
    /\ signOuts = 0
    /\ clicked = "none"

\* lines 12-14 and the first render: a SyntaxError ends the module's evaluation
ModuleLoad ==
    /\ pc = "load"
    /\ LET v == JSONParse(SerializedConfig(rawConfig)) IN
          /\ firebaseConfig' = v
          /\ pc' = IF v.ok THEN "mounted" ELSE "crashed"
    /\ UNCHANGED <<rawConfig, initialAuthToken, db, auth, userId, isAuthReady,
                   loadingMessage, activeTab, userStatus, listener, queue,
                   currentUser, signIn, calls, results, logged, rejection,
                   delivered, signOuts, clicked>>

\* lines 30-79 with attemptSignIn() called before onAuthStateChanged
BootstrapEffectSignInFirst ==
    /\ pc = "mounted"
    /\ \E outcome \in Outcomes, persisted \in UIDs \cup {NULL} :
          IF ConfigMissing(firebaseConfig)
          THEN /\ loadingMessage' = MissingMsg
               /\ pc' = "blocked"
               /\ UNCHANGED <<db, auth, listener, queue, currentUser, signIn, calls>>
          ELSE IF outcome \notin {"ok", "onAuthStateChanged"}
          THEN /\ loadingMessage' = FailedMsg(outcome)
               /\ pc' = "initFailed"
               /\ UNCHANGED <<db, auth, listener, queue, currentUser, signIn, calls>>
          ELSE IF outcome = "onAuthStateChanged"
          THEN /\ loadingMessage' = FailedMsg(outcome)
               /\ pc' = "initFailed"
               /\ db' = <<"firestore">>
               /\ auth' = <<"auth">>
               /\ currentUser' = persisted
               /\ calls' = <<FirstCall(initialAuthToken)>>
               /\ signIn' = "awaitFirst"
               /\ UNCHANGED <<listener, queue>>
          ELSE /\ db' = <<"firestore">>
               /\ auth' = <<"auth">>
               /\ listener' = "subscribed"
               /\ currentUser' = persisted
               /\ queue' = <<persisted>>
               /\ calls' = <<FirstCall(initialAuthToken), "onAuthStateChanged">>
               /\ signIn' = "awaitFirst"
               /\ pc' = "running"
               /\ UNCHANGED loadingMessage
    /\ UNCHANGED <<rawConfig, initialAuthToken, firebaseConfig, userId,
                   isAuthReady, activeTab, userStatus, results, logged,
                   rejection, delivered, signOuts, clicked>>

\* lines 30-79: the effect run once after the first render
BootstrapEffect ==
    /\ pc = "mounted"
    /\ \E outcome \in Outcomes, persisted \in UIDs \cup {NULL} :
          IF ConfigMissing(firebaseConfig)
          THEN \* lines 32-35
               /\ loadingMessage' = MissingMsg
               /\ pc' = "blocked"
               /\ UNCHANGED <<db, auth, listener, queue, currentUser, signIn, calls>>
          ELSE IF outcome # "ok"
          THEN \* lines 75-78
               /\ loadingMessage' = FailedMsg(outcome)
               /\ pc' = "initFailed"
               /\ db' = IF outcome = "onAuthStateChanged" THEN <<"firestore">> ELSE db
               /\ auth' = IF outcome = "onAuthStateChanged" THEN <<"auth">> ELSE auth
               /\ UNCHANGED <<listener, queue, currentUser, signIn, calls>>
          ELSE \* lines 38-74
               /\ db' = <<"firestore">>
               /\ auth' = <<"auth">>
               /\ listener' = "subscribed"
               /\ currentUser' = persisted
               /\ queue' = <<persisted>>
               /\ calls' = <<"onAuthStateChanged", FirstCall(initialAuthToken)>>
               /\ signIn' = "awaitFirst"
               /\ pc' = "running"
               /\ UNCHANGED loadingMessage
    /\ UNCHANGED <<rawConfig, initialAuthToken, firebaseConfig, userId,
                   isAuthReady, activeTab, userStatus, results, logged,
                   rejection, delivered, signOuts, clicked>>

\* the provider's auth state becomes user: every subscribed listener is told
Notify(user) == IF listener = "subscribed" THEN Append(queue, user) ELSE queue

\* the sign-in calls among the SDK calls
SignInCalls == SelectSeq(calls, LAMBDA c : c # "onAuthStateChanged")

\* lines 62/64: the awaited first call resolves
FirstSignInSucceeds ==
    /\ signIn = "awaitFirst"
    /\ \E uid \in UIDs :
          /\ currentUser' = uid
          /\ queue' = Notify(uid)
    /\ results' = Append(results, "ok")
    /\ signIn' = "resolved"
    /\ UNCHANGED <<rawConfig, initialAuthToken, firebaseConfig, pc, db, auth,
                   userId, isAuthReady, loadingMessage, activeTab, userStatus,
                   listener, calls, logged, rejection, delivered, signOuts, clicked>>

\* lines 66-69 with a catch block that logs and rethrows
FirstSignInFailsNoFallback ==
    /\ signIn = "awaitFirst"
    /\ results' = Append(results, "fail")
    /\ logged' = Append(logged, Err(SignInCalls[1], 1))
    /\ rejection' = Err(SignInCalls[1], 1)
    /\ signIn' = "rejected"
    /\ UNCHANGED <<rawConfig, initialAuthToken, firebaseConfig, pc, db, auth,
                   userId, isAuthReady, loadingMessage, activeTab, userStatus,
                   listener, queue, currentUser, calls, delivered, signOuts,
                   clicked>>

\* lines 66-69: the awaited first call rejects, the catch block runs
FirstSignInFails ==
    /\ signIn = "awaitFirst"
    /\ results' = Append(results, "fail")
    /\ logged' = Append(logged, Err(SignInCalls[1], 1))
    /\ calls' = Append(calls, "signInAnonymously")
    /\ signIn' = "awaitFallback"
    /\ UNCHANGED <<rawConfig, initialAuthToken, firebaseConfig, pc, db, auth,
                   userId, isAuthReady, loadingMessage, activeTab, userStatus,
                   listener, queue, currentUser, rejection, delivered, signOuts, clicked>>

\* line 69: the fallback call resolves
FallbackSucceeds ==
    /\ signIn = "awaitFallback"
    /\ \E uid \in UIDs :
          /\ currentUser' = uid
          /\ queue' = Notify(uid)
    /\ results' = Append(results, "ok")
    /\ signIn' = "resolved"
    /\ UNCHANGED <<rawConfig, initialAuthToken, firebaseConfig, pc, db, auth,
                   userId, isAuthReady, loadingMessage, activeTab, userStatus,
                   listener, calls, logged, rejection, delivered, signOuts, clicked>>

\* line 69 retried once more when the fallback rejects
FallbackFailsRetry ==
    /\ signIn = "awaitFallback"
    /\ results' = Append(results, "fail")
    /\ IF Len(SignInCalls) < 3
       THEN /\ calls' = Append(calls, "signInAnonymously")
            /\ UNCHANGED <<signIn, rejection>>
       ELSE /\ rejection' = Err("signInAnonymously", Len(SignInCalls))
            /\ signIn' = "rejected"
            /\ UNCHANGED calls
    /\ UNCHANGED <<rawConfig, initialAuthToken, firebaseConfig, pc, db, auth,
                   userId, isAuthReady, loadingMessage, activeTab, userStatus,
                   listener, queue, currentUser, logged, delivered,
                   signOuts, clicked>>

\* line 69: the fallback call rejects inside the catch block; attemptSignIn's
\* promise rejects and nothing handles it (line 73)
FallbackFails ==
    /\ signIn = "awaitFallback"
    /\ results' = Append(results, "fail")
    /\ rejection' = Err("signInAnonymously", 2)
    /\ signIn' = "rejected"
    /\ UNCHANGED <<rawConfig, initialAuthToken, firebaseConfig, pc, db, auth,
                   userId, isAuthReady, loadingMessage, activeTab, userStatus,
                   listener, queue, currentUser, calls, logged, delivered,
                   signOuts, clicked>>

\* the provider reports a sign-out (the else branch of lines 50-53 handles it)
ProviderSignOut ==
    /\ auth # NULL /\ listener # "none"
    /\ currentUser # NULL
    /\ signOuts < MaxSignOuts
    /\ currentUser' = NULL
    /\ queue' = Notify(NULL)
    /\ signOuts' = signOuts + 1
    /\ UNCHANGED <<rawConfig, initialAuthToken, firebaseConfig, pc, db, auth,
                   userId, isAuthReady, loadingMessage, activeTab, userStatus,
                   listener, signIn, calls, results, logged, rejection,
                   delivered, clicked>>

\* lines 46-56: the provider invokes the subscribed listener
ListenerFire ==
    /\ listener = "subscribed"
    /\ queue # <<>>
    /\ LET r == AuthCallback(Head(queue)) IN
          /\ userId' = r.userId
          /\ userStatus' = r.userStatus
          /\ isAuthReady' = r.isAuthReady
          /\ loadingMessage' = r.loadingMessage
    /\ delivered' = Append(delivered, Head(queue))
    /\ queue' = Tail(queue)
    /\ UNCHANGED <<rawConfig, initialAuthToken, firebaseConfig, pc, db, auth,
                   activeTab, listener, currentUser, signIn, calls, results,
                   logged, rejection, signOuts, clicked>>

\* the labels of the three TabButtons, lines 166-168
TabNames == {"Chat", "Schedule", "Notes"}

\* line 140: a click on a TabButton, rendered only past the loading gate
TabClick ==
    /\ pc = "running"
    /\ isAuthReady
    /\ \E name \in TabNames :
          /\ activeTab' = name
          /\ clicked' = name
    /\ UNCHANGED <<rawConfig, initialAuthToken, firebaseConfig, pc, db, auth,
                   userId, isAuthReady, loadingMessage, userStatus, listener,
                   queue, currentUser, signIn, calls, results, logged,
                   rejection, delivered, signOuts>>

\* line 74 with no cleanup returned: the subscription outlives the shell
TeardownKeepsListener ==
    /\ pc \in {"blocked", "initFailed", "running"}
    /\ pc' = "unmounted"
    /\ UNCHANGED <<rawConfig, initialAuthToken, firebaseConfig, db, auth,
                   userId, isAuthReady, loadingMessage, activeTab, userStatus,
                   listener, queue, currentUser, signIn, calls, results,
                   logged, rejection, delivered, signOuts, clicked>>

\* line 74: the effect's cleanup, run when the shell is unmounted; only the
\* path through line 74 returns one
Teardown ==
    /\ pc \in {"blocked", "initFailed", "running"}
    /\ pc' = "unmounted"
    /\ listener' = IF listener = "subscribed" THEN "unsubscribed" ELSE listener
    /\ queue' = <<>>
    /\ UNCHANGED <<rawConfig, initialAuthToken, firebaseConfig, db, auth,
                   userId, isAuthReady, loadingMessage, activeTab, userStatus,
                   currentUser, signIn, calls, results, logged, rejection,
                   delivered, signOuts, clicked>>

-----------------------------------------------------------------------------
\* Rendering, lines 88-190

\* lines 123-135 with the Notes case returning the Schedule placeholder
renderContentNotesAsSchedule(tab) ==
    CASE tab = "Chat"     -> "ChatView"
      [] tab = "Schedule" -> "ScheduleView"
      [] tab = "Notes"    -> "ScheduleView"
      [] OTHER            -> "ChatView"

\* lines 123-135
renderContent(tab) ==
    CASE tab = "Chat"     -> "ChatView"
      [] tab = "Schedule" -> "ScheduleView"
      [] tab = "Notes"    -> "NotesView"
      [] OTHER            -> "ChatView"

\* lines 88-101 and 155-190: what the mounted shell shows
Render ==
    IF pc \in {"load", "crashed", "unmounted"} THEN <<"nothing">>
    ELSE IF ~isAuthReady THEN <<"loading", loadingMessage>>
    ELSE <<"shell", renderContent(activeTab), userId, userStatus>>

Next ==
    \/ ModuleLoad
    \/ BootstrapEffect
    \/ FirstSignInSucceeds
    \/ FirstSignInFails
    \/ FallbackSucceeds
    \/ FallbackFails
    \/ ProviderSignOut
    \/ ListenerFire
    \/ TabClick
    \/ Teardown

Spec == Init /\ [][Next]_vars

-----------------------------------------------------------------------------
\* Helpers of the properties

Count(seq, c) == Len(SelectSeq(seq, LAMBDA x : x = c))
Last(seq) == seq[Len(seq)]

\* the bootstrap got past the configuration check and the construction
Bootstrapped == signIn # "idle"

\* selector values the router may be handed, the three labels among them
Selectors == TabNames \cup {"", "Settings", "chat", "none"}

-----------------------------------------------------------------------------
\* C1: with a non-empty configuration and no pre-issued token, anonymous
\* sign-in is attempted exactly once, whether it succeeds or fails, and
\* readiness is true once the listener has fired.
C1_AnonymousExactlyOnce ==
    (Bootstrapped /\ initialAuthToken = NoToken) =>
        /\ Count(calls, "signInAnonymously") = 1
        /\ Count(calls, "signInWithCustomToken") = 0
        /\ (delivered # <<>> => isAuthReady)

\* C2: with a non-empty configuration and a token the provider rejects, the
\* token sign-in is attempted first; after it fails the error is logged and
\* the anonymous sign-in is attempted as the fallback, only then; the token
\* error is not what attemptSignIn rejects with; readiness is true once the
\* listener has fired.
C2_TokenThenAnonymousFallback ==
    (Bootstrapped /\ Truthy(initialAuthToken)) =>
        /\ SignInCalls[1] = "signInWithCustomToken"
        /\ (Len(SignInCalls) >= 2 => results # <<>> /\ results[1] = "fail")
        /\ (results # <<>> /\ results[1] = "fail" =>
               /\ SignInCalls = <<"signInWithCustomToken", "signInAnonymously">>
               /\ logged = <<Err("signInWithCustomToken", 1)>>
               /\ rejection # Err("signInWithCustomToken", 1))
        /\ (results # <<>> /\ results[1] = "ok" => logged = <<>> /\ Len(SignInCalls) = 1)
        /\ (delivered # <<>> => isAuthReady)

C2_Witness ==
    /\ Truthy(initialAuthToken)
    /\ results = <<"fail", "ok">>
    /\ SignInCalls = <<"signInWithCustomToken", "signInAnonymously">>
    /\ isAuthReady /\ userId # NULL

\* C3: with an empty configuration (no keys) the bootstrap halts blocked:
\* readiness stays false, no client is constructed, no listener is registered,
\* no sign-in is attempted, and once the effect has run the loading screen
\* shows the configuration-missing message for as long as the shell is mounted.
C3_EmptyConfigBlocks ==
    (firebaseConfig.ok /\ firebaseConfig.keys = {}) =>
        /\ ~isAuthReady
        /\ db = NULL /\ auth = NULL
        /\ listener = "none"
        /\ calls = <<>> /\ signIn = "idle"
        /\ pc \in {"mounted", "blocked", "unmounted"}
        /\ (pc # "mounted" => loadingMessage = MissingMsg)
        /\ (pc = "blocked" => Render = <<"loading", MissingMsg>>)

C3_Witness ==
    /\ firebaseConfig.ok /\ firebaseConfig.keys = {}
    /\ pc = "blocked"
    /\ Render = <<"loading", MissingMsg>>

\* C4: every initialization-time exception, a malformed serialized
\* configuration as well as a construction failure, is caught and shown as
\* the failed-to-initialize message; the shell does not crash and readiness
\* is not set.
C4_InitExceptionsCaught ==
    /\ pc # "crashed"
    /\ (JSONParse(SerializedConfig(rawConfig)) = SyntaxError /\ pc # "load" =>
           \E m \in Outcomes \cup {"SyntaxError"} :
               Render = <<"loading", FailedMsg(m)>> \/ pc = "unmounted")
    /\ (pc = "initFailed" =>
           /\ \E m \in Outcomes : Render = <<"loading", FailedMsg(m)>>
           /\ ~isAuthReady)

\* C5 as stated: the listener is registered before any sign-in attempt, every
\* sign-in success is handed to the listener, and no sign-in result occurs
\* while no listener is registered.
C5_NoResultWithoutListener ==
    /\ [](SignInCalls # <<>> => calls[1] = "onAuthStateChanged")
    /\ [][results' # results => listener = "subscribed"]_vars
    /\ [][results' = Append(results, "ok") =>
             queue' = Append(queue, currentUser')]_vars

\* C5 amended: the listener is registered before any sign-in attempt, so no
\* sign-in result occurs before the registration; every sign-in success that
\* occurs while the listener is still subscribed is handed to it, and once it
\* has handled all it was handed userId is the provider's user.
C5_ListenerBeforeSignIn ==
    /\ [](SignInCalls # <<>> => calls[1] = "onAuthStateChanged" /\ listener # "none")
    /\ [][results' # results => listener # "none"]_vars
    /\ [][(results' = Append(results, "ok") /\ listener = "subscribed") =>
             queue' = Append(queue, currentUser')]_vars
    /\ []((listener = "subscribed" /\ queue = <<>>) => userId = currentUser)

C5_Witness ==
    /\ listener = "subscribed"
    /\ results = <<"fail", "ok">>
    /\ queue = <<>>
    /\ userId = currentUser /\ userId # NULL

\* C6: the readiness flag is false until the listener's first invocation,
\* true from that invocation on whether it reported a user or none, and never
\* set back to false.
C6_ReadinessLatch ==
    /\ [](isAuthReady <=> delivered # <<>>)
    /\ [][isAuthReady => isAuthReady']_vars

C6_Witness ==
    /\ isAuthReady
    /\ Len(delivered) >= 3
    /\ delivered[1] = NULL
    /\ Last(delivered) = NULL
    /\ pc = "unmounted"
    /\ clicked = "Schedule"

\* C7: userId is null while readiness is false; after a listener invocation
\* it is the reported user's uid, null when none was reported; nothing but a
\* listener invocation changes it; userStatus is the logged-in line of userId
\* exactly when userId is not null.
C7_SessionIdentity ==
    /\ [](~isAuthReady => userId = NULL /\ userStatus = NULL)
    /\ [](delivered # <<>> => userId = Last(delivered))
    /\ [][userId' # userId => delivered' = Append(delivered, userId')]_vars
    /\ [](userId # NULL => userStatus = LoggedInStatus(userId))
    /\ [](userId = NULL => userStatus \in {NULL, NotStartedStatus})
    /\ [](userId = NULL \/ userId \in UIDs)

C7_Witness ==
    /\ Len(delivered) >= 2
    /\ delivered[Len(delivered) - 1] \in UIDs
    /\ Last(delivered) = NULL
    /\ userId = NULL
    /\ userStatus = NotStartedStatus

\* C8: past the loading gate the shell shows the one placeholder of
\* activeTab (Chat, Schedule, Notes, and ChatView for any other selector);
\* activeTab is Chat until a tab is clicked and then the last clicked label,
\* whatever auth events occur; a tab click leaves userId, isAuthReady and
\* userStatus alone.
C8_Router ==
    /\ []((pc = "running" /\ isAuthReady) =>
              /\ Render[1] = "shell"
              /\ (activeTab = "Chat" => Render[2] = "ChatView")
              /\ (activeTab = "Schedule" => Render[2] = "ScheduleView")
              /\ (activeTab = "Notes" => Render[2] = "NotesView"))
    /\ [](\A sel \in Selectors \ TabNames : renderContent(sel) = "ChatView")
    /\ [](activeTab = IF clicked = "none" THEN "Chat" ELSE clicked)
    /\ [][(activeTab' # activeTab \/ clicked' # clicked) =>
             /\ pc = "running" /\ isAuthReady
             /\ UNCHANGED <<userId, isAuthReady, userStatus>>]_vars

C8_Witness ==
    /\ pc = "running" /\ isAuthReady
    /\ activeTab = "Notes"
    /\ Render[2] = "NotesView"
    /\ Len(delivered) >= 2

\* C9: at most two sign-in calls are made, at most one of them with the
\* token; once the fallback has failed no further call is made; readiness is
\* true only if the listener has fired.
C9_NoRetries ==
    /\ [](Len(SignInCalls) <= 2)
    /\ [](Count(calls, "signInWithCustomToken") <= 1)
    /\ [](Len(results) <= Len(SignInCalls))
    /\ [][signIn = "rejected" => calls' = calls /\ signIn' = "rejected"]_vars
    /\ [](isAuthReady => delivered # <<>>)
    /\ []((pc \in {"mounted", "blocked", "initFailed", "running"} /\ delivered = <<>>)
             => Render[1] = "loading")

C9_Witness ==
    /\ signIn = "rejected"
    /\ results = <<"fail", "fail">>
    /\ Len(SignInCalls) = 2
    /\ pc = "running"
    /\ isAuthReady

\* C10: after the teardown of a shell whose bootstrap registered the
\* listener, no step invokes the listener or changes userId, userStatus,
\* isAuthReady or loadingMessage, while the sign-in in flight still settles.
C10_TeardownReleasesListener ==
    [][(pc = "unmounted" /\ listener # "none") =>
          /\ UNCHANGED <<userId, userStatus, isAuthReady, loadingMessage>>
          /\ delivered' = delivered]_vars

C10_Witness ==
    /\ pc = "unmounted" /\ listener = "unsubscribed"
    /\ results = <<"fail", "ok">>
    /\ currentUser # NULL
    /\ delivered = <<>>
    /\ ~isAuthReady /\ userId = NULL
====
